---------------------------- MODULE Spec2Model ----------------------------
(***************************************************************************)
(* A model of link_map.py: the tokenizer of a link map report, the builder *)
(* of the three-level tree, the merger of per-function input sections and  *)
(* the name-keyed differ.  Text is a sequence of one-character strings, so *)
(* that find, split and strip are computed and not assumed.  Offsets are   *)
(* 0-based as in Python.  Each function has its own specification, whose   *)
(* initial states draw the function's input from a bounded set.            *)
(***************************************************************************)
EXTENDS Integers, Sequences, FiniteSets, TLC

VARIABLES
  \* tokenize_link_map: its argument, its locals, the list it returns
  content, lines, out_idx, in_idx, symbol_idx, tok_elems, tok_k, tok_pc,
  \* build_tree: its argument, the tree, the two list cursors (which list
  \* sections_in and symbols refer to), the lists bound to them at entry
  elems, sections_out, sections_in, symbols, orphan_sections, orphan_symbols,
  bt_k, bt_pc,
  \* merge_function_sections: the objects (heap[id] is the SectionIn with
  \* identity id), the argument (a list of ids), the OrderedDict, and per
  \* finished call what it returned; ms_entry is the heap at the call's entry
  heap, sections, merged_sections, ms_k, ms_pc, ms_returned, ms_entry,
  \* the differ: which of the three functions is called, its arguments a
  \* and b, what f(a, b) returned and what f(b, a) returned
  df_level, df_a, df_b, df_pc, df_result, df_reverse

tokVars == <<content, lines, out_idx, in_idx, symbol_idx, tok_elems, tok_k, tok_pc>>
btVars == <<elems, sections_out, sections_in, symbols, orphan_sections,
            orphan_symbols, bt_k, bt_pc>>

msVars == <<heap, sections, merged_sections, ms_k, ms_pc, ms_returned, ms_entry>>

dfVars == <<df_level, df_a, df_b, df_pc, df_result, df_reverse>>

vars == <<tokVars, btVars, msVars, dfVars>>

----------------------------------------------------------------------------
(* Text helpers: Python's str operations on sequences of characters.       *)

SP == " "
TAB == "\t"
NL == "\n"

\* str.strip() removes these from both ends (the model's alphabet holds
\* no other whitespace character).
Whitespace == {SP, TAB}

\* l[idx:] for a 0-based idx >= 0
SliceFrom(l, idx) == IF idx >= Len(l) THEN <<>> ELSE SubSeq(l, idx + 1, Len(l))

\* l[:idx] for a 0-based idx >= 0
SliceTo(l, idx) == IF idx >= Len(l) THEN l ELSE SubSeq(l, 1, idx)

RECURSIVE LStrip(_)
LStrip(s) ==
  IF s = <<>> THEN <<>>
  ELSE IF Head(s) \in Whitespace THEN LStrip(Tail(s)) ELSE s

RECURSIVE RStrip(_)
RStrip(s) ==
  IF s = <<>> THEN <<>>
  ELSE IF s[Len(s)] \in Whitespace THEN RStrip(SubSeq(s, 1, Len(s) - 1)) ELSE s

Strip(s) == RStrip(LStrip(s))

\* str.find: the 0-based offset of the first occurrence of sub in s, else -1
RECURSIVE FindFrom(_, _, _)
FindFrom(s, sub, i) ==
  IF i + Len(sub) > Len(s) THEN -1
  ELSE IF SubSeq(s, i + 1, i + Len(sub)) = sub THEN i
  ELSE FindFrom(s, sub, i + 1)

Find(s, sub) == FindFrom(s, sub, 0)

\* the 0-based offset of the first sep at or after offset i, else Len(s)
RECURSIVE NextSep(_, _, _)
NextSep(s, sep, i) ==
  IF i >= Len(s) THEN Len(s)
  ELSE IF s[i + 1] = sep THEN i ELSE NextSep(s, sep, i + 1)

\* str.split(sep) on a one-character separator: the pieces between the
\* separators, empty pieces included.
RECURSIVE SplitFrom(_, _, _)
SplitFrom(s, sep, i) ==
  LET j == NextSep(s, sep, i)
  IN IF j >= Len(s) THEN <<SubSeq(s, i + 1, Len(s))>>
     ELSE <<SubSeq(s, i + 1, j)>> \o SplitFrom(s, sep, j + 1)

SplitOn(s, sep) == SplitFrom(s, sep, 0)

\* str.splitlines() for text whose only line boundary is "\n": a final
\* newline opens no further line, and the empty text has no lines.
SplitLines(s) ==
  IF s = <<>> THEN <<>>
  ELSE IF s[Len(s)] = NL THEN SplitOn(SubSeq(s, 1, Len(s) - 1), NL)
  ELSE SplitOn(s, NL)

parse_space_separated(l) == SelectSeq(SplitOn(l, SP), LAMBDA a : a # <<>>)

\* parse_positional without the strip
parse_positional_nostrip(l, idx) ==
  LET a == SliceFrom(l, idx)
  IN IF a # <<>> /\ a[1] # SP THEN a ELSE <<>>

parse_positional(l, idx) ==
  LET a == SliceFrom(l, idx)
  IN IF a # <<>> /\ a[1] # SP THEN Strip(a) ELSE <<>>

\* while not lines[0]: lines = lines[1:]   (<<>> stands for the IndexError
\* raised by lines[0] when no line is left; see TokenizeNoLines)
RECURSIVE SkipBlank(_)
SkipBlank(ls) ==
  IF ls = <<>> THEN <<>>
  ELSE IF Head(ls) = <<>> THEN SkipBlank(Tail(ls)) ELSE ls

Heading ==
  << <<"V","M","A">>, <<"L","M","A">>, <<"S","i","z","e">>,
     <<"A","l","i","g","n">>, <<"O","u","t">>, <<"I","n">>,
     <<"S","y","m","b","o","l">> >>

LinkMapLine(regular, out, in_, symbol) ==
  [vma |-> regular[1], lma |-> regular[2], size |-> regular[3],
   align |-> regular[4], out |-> out, in_ |-> in_, symbol |-> symbol]

----------------------------------------------------------------------------
(* Inputs of the tokenizer.                                                *)

MaxTail == 8

HeadingLine ==
  <<"V","M","A",SP,"L","M","A",SP,"S","i","z","e",SP,"A","l","i","g","n",SP,
    "O","u","t",SP,"I","n",SP,"S","y","m","b","o","l">>

\* a heading without its last column
BadHeadingLine == SubSeq(HeadingLine, 1, 25)

\* the four numeric columns of a row, up to the offset of "Out"
NumericPrefix ==
  <<SP,SP,"2","a","8",SP,"2","a","8",SP,SP,SP,SP,"8",SP,SP,SP,"1",SP>>

\* a row that lacks the Align value
ShortPrefix ==
  <<SP,SP,"2","a","8",SP,"2","a","8",SP,SP,SP,SP,"8",SP,SP,SP,SP,SP>>

TailChars == {SP, TAB, "a"}

RowTails == UNION {[1..n -> TailChars] : n \in 0..MaxTail}

Rows == {NumericPrefix \o t : t \in RowTails} \cup {ShortPrefix, <<>>}

FixedRow == NumericPrefix \o <<"a">>

Contents ==
  {HeadingLine \o <<NL>> \o r : r \in Rows}
  \cup {<<NL>> \o HeadingLine \o <<NL>> \o FixedRow \o <<NL>> \o r \o <<NL>> :
          r \in {NumericPrefix \o t : t \in [1..2 -> TailChars]}}
  \cup {<<>>, <<NL>>, HeadingLine, BadHeadingLine \o <<NL>> \o FixedRow}

----------------------------------------------------------------------------
(* tokenize_link_map                                                       *)

\* lines[0] raises IndexError when the text has no non-blank line
TokenizeNoLines ==
  /\ tok_pc = "start"
  /\ SkipBlank(SplitLines(content)) = <<>>
  /\ tok_pc' = "IndexError"
  /\ UNCHANGED <<content, lines, out_idx, in_idx, symbol_idx, tok_elems, tok_k>>
  /\ UNCHANGED <<btVars, msVars, dfVars>>

\* assert_equal(heading, [...]) fails
TokenizeBadHeading ==
  /\ tok_pc = "start"
  /\ LET ls == SkipBlank(SplitLines(content))
     IN /\ ls # <<>>
        /\ parse_space_separated(ls[1]) # Heading
        /\ lines' = ls
  /\ tok_pc' = "AssertionError"
  /\ UNCHANGED <<content, out_idx, in_idx, symbol_idx, tok_elems, tok_k>>
  /\ UNCHANGED <<btVars, msVars, dfVars>>

\* the heading matches: the three offsets are found (each > 0, since "VMA"
\* precedes them) and the loop over lines[1:] starts
TokenizeHeading ==
  /\ tok_pc = "start"
  /\ LET ls == SkipBlank(SplitLines(content))
     IN /\ ls # <<>>
        /\ parse_space_separated(ls[1]) = Heading
        /\ Find(ls[1], <<"O","u","t">>) > 0
        /\ Find(ls[1], <<"I","n">>) > 0
        /\ Find(ls[1], <<"S","y","m","b","o","l">>) > 0
        /\ lines' = ls
        /\ out_idx' = Find(ls[1], <<"O","u","t">>)
        /\ in_idx' = Find(ls[1], <<"I","n">>)
        /\ symbol_idx' = Find(ls[1], <<"S","y","m","b","o","l">>)
  /\ tok_k' = 2
  /\ tok_pc' = "loop"
  /\ UNCHANGED <<content, tok_elems>>
  /\ UNCHANGED <<btVars, msVars, dfVars>>

\* one iteration of `for line in lines[1:]`
TokenizeLine ==
  /\ tok_pc = "loop"
  /\ tok_k <= Len(lines)
  /\ LET line == lines[tok_k]
         regular == parse_space_separated(SliceTo(line, out_idx))
     IN /\ Len(regular) >= 4
        /\ tok_elems' = Append(tok_elems,
             LinkMapLine(regular,
                         parse_positional(line, out_idx),
                         parse_positional(line, in_idx),
                         parse_positional(line, symbol_idx)))
  /\ tok_k' = tok_k + 1
  /\ UNCHANGED <<content, lines, out_idx, in_idx, symbol_idx, tok_pc>>
  /\ UNCHANGED <<btVars, msVars, dfVars>>

\* regular[3] raises IndexError on a row with fewer than four numeric tokens
TokenizeShortLine ==
  /\ tok_pc = "loop"
  /\ tok_k <= Len(lines)
  /\ Len(parse_space_separated(SliceTo(lines[tok_k], out_idx))) < 4
  /\ tok_pc' = "IndexError"
  /\ UNCHANGED <<content, lines, out_idx, in_idx, symbol_idx, tok_elems, tok_k>>
  /\ UNCHANGED <<btVars, msVars, dfVars>>

TokenizeReturn ==
  /\ tok_pc = "loop"
  /\ tok_k > Len(lines)
  /\ tok_pc' = "done"
  /\ UNCHANGED <<content, lines, out_idx, in_idx, symbol_idx, tok_elems, tok_k>>
  /\ UNCHANGED <<btVars, msVars, dfVars>>

TokNext ==
  \/ TokenizeNoLines
  \/ TokenizeBadHeading
  \/ TokenizeHeading
  \/ TokenizeLine
  \/ TokenizeShortLine
  \/ TokenizeReturn

----------------------------------------------------------------------------
(* Numbers: int(x, base=16) on the digit strings of the model.             *)

HexChars == <<"0","1","2","3","4","5","6","7","8","9","a","b","c","d","e","f">>

IsHexChar(c) == \E i \in 1..16 : HexChars[i] = c

DigitVal(c) == (CHOOSE i \in 1..16 : HexChars[i] = c) - 1

\* int() raises ValueError on the empty string and on any other character
ValidHex(x) == x # <<>> /\ \A i \in 1..Len(x) : IsHexChar(x[i])

RECURSIVE HexAcc(_, _)
HexAcc(x, acc) ==
  IF x = <<>> THEN acc ELSE HexAcc(Tail(x), acc * 16 + DigitVal(Head(x)))

HexInt(x) == HexAcc(x, 0)

----------------------------------------------------------------------------
(* Inputs of build_tree.                                                   *)

MaxElems == 4

Num1 == [vma |-> <<"2","a","8">>, lma |-> <<"2","b","0">>,
         size |-> <<"8">>, align |-> <<"1">>]
Num2 == [vma |-> <<"1","5","b","0">>, lma |-> <<"1","8","c","0">>,
         size |-> <<"1","c">>, align |-> <<"1","0">>]
\* a Size that is no hexadecimal number
NumBad == [vma |-> <<"2","a","8">>, lma |-> <<"2","a","8">>,
           size |-> <<"g">>, align |-> <<"1">>]

Line(num, out, in_, symbol) ==
  [vma |-> num.vma, lma |-> num.lma, size |-> num.size, align |-> num.align,
   out |-> out, in_ |-> in_, symbol |-> symbol]

\* the rows of every role: an output section (also one whose long name
\* runs into the In column), an input section (also one whose name runs
\* into the Symbol column), a symbol, a row with no name at all
Lines ==
  { Line(Num1, <<"A">>, <<>>, <<>>),
    Line(Num2, <<"B","B">>, <<"B">>, <<>>),
    Line(Num1, <<>>, <<"i">>, <<>>),
    Line(Num2, <<>>, <<"j","j">>, <<"j">>),
    Line(Num1, <<>>, <<>>, <<"s">>),
    Line(Num2, <<>>, <<>>, <<"t">>),
    Line(Num2, <<>>, <<>>, <<>>),
    Line(NumBad, <<>>, <<"i">>, <<>>) }

\* every list of at most one row, and the longer ones that pass the
\* assertion on the first row
ElemLists ==
  {es \in UNION {[1..n -> Lines] : n \in 0..MaxElems} :
     Len(es) <= 1 \/ es[1].out # <<>>}

----------------------------------------------------------------------------
(* build_tree.  A list cursor names the list it is bound to: sections_in   *)
(* is 0 for the list created at entry, else o for sections_out[o].children;*)
(* symbols is <<0, 0>> for the list created at entry, else <<o, i>> for    *)
(* sections_out[o].children[i].children.  The field rec of a node is the   *)
(* index of the record it was built from (a history field, not in the      *)
(* code).                                                                  *)

ValidNums(elem) ==
  ValidHex(elem.vma) /\ ValidHex(elem.lma) /\ ValidHex(elem.size) /\ ValidHex(elem.align)

SectionOut(elem, k) ==
  [name |-> elem.out, vma |-> HexInt(elem.vma), lma |-> HexInt(elem.lma),
   size |-> HexInt(elem.size), align |-> HexInt(elem.align),
   children |-> <<>>, rec |-> k]

SectionIn(elem, k) ==
  [name |-> elem.in_, vma |-> HexInt(elem.vma), lma |-> HexInt(elem.lma),
   size |-> HexInt(elem.size), align |-> HexInt(elem.align),
   children |-> <<>>, rec |-> k]

Symbol(elem, k) ==
  [name |-> elem.symbol, vma |-> HexInt(elem.vma), lma |-> HexInt(elem.lma),
   size |-> HexInt(elem.size), align |-> HexInt(elem.align), rec |-> k]

\* elems[0] raises IndexError on the empty list
BuildEmpty ==
  /\ bt_pc = "start"
  /\ elems = <<>>
  /\ bt_pc' = "IndexError"
  /\ UNCHANGED <<elems, sections_out, sections_in, symbols, orphan_sections,
                 orphan_symbols, bt_k>>
  /\ UNCHANGED <<tokVars, msVars, dfVars>>

\* assert len(elems[0].out) fails
BuildAssertFail ==
  /\ bt_pc = "start"
  /\ elems # <<>>
  /\ Len(elems[1].out) = 0
  /\ bt_pc' = "AssertionError"
  /\ UNCHANGED <<elems, sections_out, sections_in, symbols, orphan_sections,
                 orphan_symbols, bt_k>>
  /\ UNCHANGED <<tokVars, msVars, dfVars>>

BuildStart ==
  /\ bt_pc = "start"
  /\ elems # <<>>
  /\ Len(elems[1].out) # 0
  /\ bt_k' = 1
  /\ bt_pc' = "loop"
  /\ UNCHANGED <<elems, sections_out, sections_in, symbols, orphan_sections,
                 orphan_symbols>>
  /\ UNCHANGED <<tokVars, msVars, dfVars>>

\* sections_in left on the list it had
SectionsInAfterOut_stale == sections_in

\* `sections_in = section_out.children`: the children of the section that
\* is being appended
SectionsInAfterOut == Len(sections_out) + 1

\* `if elem.out:` a new output section; symbols keeps the list it had
BuildOut ==
  /\ bt_pc = "loop"
  /\ bt_k <= Len(elems)
  /\ elems[bt_k].out # <<>>
  /\ ValidNums(elems[bt_k])
  /\ sections_out' = Append(sections_out, SectionOut(elems[bt_k], bt_k))
  /\ sections_in' = SectionsInAfterOut
  /\ bt_k' = bt_k + 1
  /\ UNCHANGED <<elems, symbols, orphan_sections, orphan_symbols, bt_pc>>
  /\ UNCHANGED <<tokVars, msVars, dfVars>>

\* `if elem.in_:` a new input section, appended to the list sections_in is
\* bound to; symbols is bound to its children
BuildIn ==
  /\ bt_pc = "loop"
  /\ bt_k <= Len(elems)
  /\ elems[bt_k].out = <<>>
  /\ elems[bt_k].in_ # <<>>
  /\ ValidNums(elems[bt_k])
  /\ IF sections_in = 0
       THEN /\ orphan_sections' = Append(orphan_sections, SectionIn(elems[bt_k], bt_k))
            /\ symbols' = <<0, Len(orphan_sections) + 1>>
            /\ UNCHANGED sections_out
       ELSE /\ sections_out' =
                 [sections_out EXCEPT ![sections_in].children =
                    Append(@, SectionIn(elems[bt_k], bt_k))]
            /\ symbols' = <<sections_in, Len(sections_out[sections_in].children) + 1>>
            /\ UNCHANGED orphan_sections
  /\ bt_k' = bt_k + 1
  /\ UNCHANGED <<elems, sections_in, orphan_symbols, bt_pc>>
  /\ UNCHANGED <<tokVars, msVars, dfVars>>

\* otherwise a symbol, appended to the list symbols is bound to
BuildSymbol ==
  /\ bt_pc = "loop"
  /\ bt_k <= Len(elems)
  /\ elems[bt_k].out = <<>>
  /\ elems[bt_k].in_ = <<>>
  /\ ValidNums(elems[bt_k])
  /\ IF symbols = <<0, 0>>
       THEN /\ orphan_symbols' = Append(orphan_symbols, Symbol(elems[bt_k], bt_k))
            /\ UNCHANGED <<sections_out, orphan_sections>>
       ELSE IF symbols[1] = 0
       THEN /\ orphan_sections' =
                 [orphan_sections EXCEPT ![symbols[2]].children =
                    Append(@, Symbol(elems[bt_k], bt_k))]
            /\ UNCHANGED <<sections_out, orphan_symbols>>
       ELSE /\ sections_out' =
                 [sections_out EXCEPT ![symbols[1]].children[symbols[2]].children =
                    Append(@, Symbol(elems[bt_k], bt_k))]
            /\ UNCHANGED <<orphan_sections, orphan_symbols>>
  /\ bt_k' = bt_k + 1
  /\ UNCHANGED <<elems, sections_in, symbols, bt_pc>>
  /\ UNCHANGED <<tokVars, msVars, dfVars>>

\* int(.., base=16) raises ValueError
BuildValueError ==
  /\ bt_pc = "loop"
  /\ bt_k <= Len(elems)
  /\ ~ValidNums(elems[bt_k])
  /\ bt_pc' = "ValueError"
  /\ UNCHANGED <<elems, sections_out, sections_in, symbols, orphan_sections,
                 orphan_symbols, bt_k>>
  /\ UNCHANGED <<tokVars, msVars, dfVars>>

BuildReturn ==
  /\ bt_pc = "loop"
  /\ bt_k > Len(elems)
  /\ bt_pc' = "done"
  /\ UNCHANGED <<elems, sections_out, sections_in, symbols, orphan_sections,
                 orphan_symbols, bt_k>>
  /\ UNCHANGED <<tokVars, msVars, dfVars>>

BtNext ==
  \/ BuildEmpty
  \/ BuildAssertFail
  \/ BuildStart
  \/ BuildOut
  \/ BuildIn
  \/ BuildSymbol
  \/ BuildValueError
  \/ BuildReturn

----------------------------------------------------------------------------
(* Inputs of merge_function_sections.                                      *)

MaxSections == 3

SectionNames ==
  { <<"a",".","o",":","(","f",")">>, <<"a",".","o",":","(","g",")">>,
    <<"a",".","o">>, <<"b">> }

\* an input section as build_tree makes it: one symbol of its own size, or
\* none
InputSection(name, v, z) ==
  [name |-> name, vma |-> 256 + 8 * v, lma |-> 512 - 8 * v, size |-> z, align |-> 4,
   children |-> IF v = 1 THEN <<>>
                ELSE <<[name |-> <<name[Len(name)], "1">>, vma |-> 256 + 8 * v,
                        lma |-> 512 - 8 * v, size |-> z, align |-> 1]>>]

InputSections ==
  {InputSection(n, vz[1], vz[2]) : n \in SectionNames, vz \in {<<1, 8>>, <<2, 8>>, <<2, 16>>}}

SectionLists == UNION {[1..n -> InputSections] : n \in 0..MaxSections}

----------------------------------------------------------------------------
(* merge_function_sections                                                 *)

\* the name cut before ".o"
strip_function_name_short(name) ==
  LET idx == Find(name, <<".","o",":","(">>)
  IN IF idx = -1 THEN name ELSE SliceTo(name, idx)

strip_function_name(name) ==
  LET idx == Find(name, <<".","o",":","(">>)
  IN IF idx = -1 THEN name ELSE SliceTo(name, idx + 2)

\* the OrderedDict merged_sections is a sequence of [key, id] in insertion
\* order
HasKey(d, key) == \E n \in 1..Len(d) : d[n].key = key

Lookup(d, key) == d[CHOOSE n \in 1..Len(d) : d[n].key = key].id

Min2(a, b) == IF a <= b THEN a ELSE b
Max2(a, b) == IF a >= b THEN a ELSE b

\* `merged_sections[name] = section`: the dictionary entry is the input
\* section itself
Allocate_alias(h, section, name) == <<h, section>>

\* `merged_sections[name] = SectionIn(...)`: a new object; the pair of the
\* heap that holds it and its identity
Allocate(h, section, name) ==
  << Append(h, [name |-> name, vma |-> h[section].vma, lma |-> h[section].lma,
                size |-> 0, align |-> 0, children |-> <<>>]),
     Len(h) + 1 >>

\* lines 228-232 with the first section's vma kept
Accumulate_firstvma(m, section) ==
  [m EXCEPT !.lma = Min2(m.lma, section.lma),
            !.size = m.size + section.size,
            !.align = Max2(m.align, section.size),
            !.children = m.children \o section.children]

\* lines 228-232: the update of merged_section by one input section
Accumulate(m, section) ==
  [m EXCEPT !.vma = Min2(m.vma, section.vma),
            !.lma = Min2(m.lma, section.lma),
            !.size = m.size + section.size,
            !.align = Max2(m.align, section.size),
            !.children = m.children \o section.children]

\* an iteration whose key is not yet in merged_sections
MergeNewKey ==
  /\ ms_pc = "loop"
  /\ ms_k <= Len(sections)
  /\ LET section == sections[ms_k]
         name == strip_function_name(heap[section].name)
         a == Allocate(heap, section, name)
     IN /\ ~HasKey(merged_sections, name)
        /\ merged_sections' = Append(merged_sections, [key |-> name, id |-> a[2]])
        /\ heap' = [a[1] EXCEPT ![a[2]] = Accumulate(a[1][a[2]], a[1][section])]
  /\ ms_k' = ms_k + 1
  /\ UNCHANGED <<sections, ms_pc, ms_returned, ms_entry>>
  /\ UNCHANGED <<tokVars, btVars, dfVars>>

\* an iteration whose key is in merged_sections
MergeSeenKey ==
  /\ ms_pc = "loop"
  /\ ms_k <= Len(sections)
  /\ LET section == sections[ms_k]
         name == strip_function_name(heap[section].name)
     IN /\ HasKey(merged_sections, name)
        /\ heap' = [heap EXCEPT ![Lookup(merged_sections, name)] =
                      Accumulate(@, heap[section])]
  /\ ms_k' = ms_k + 1
  /\ UNCHANGED <<sections, merged_sections, ms_pc, ms_returned, ms_entry>>
  /\ UNCHANGED <<tokVars, btVars, dfVars>>

\* return list(merged_sections.values()); the record keeps the argument,
\* the argument's sections as they were at entry, the returned identities
\* and the returned sections as they are on return
MergeReturn ==
  /\ ms_pc = "loop"
  /\ ms_k > Len(sections)
  /\ ms_returned' = Append(ms_returned,
       [arg |-> sections,
        entry |-> [n \in 1..Len(sections) |-> ms_entry[sections[n]]],
        ids |-> [n \in 1..Len(merged_sections) |-> merged_sections[n].id],
        nodes |-> [n \in 1..Len(merged_sections) |-> heap[merged_sections[n].id]]])
  /\ ms_pc' = "done"
  /\ UNCHANGED <<heap, sections, merged_sections, ms_k, ms_entry>>
  /\ UNCHANGED <<tokVars, btVars, dfVars>>

\* the merger is applied to the list it has just returned
MergeAgain ==
  /\ ms_pc = "done"
  /\ Len(ms_returned) = 1
  /\ sections' = ms_returned[1].ids
  /\ merged_sections' = <<>>
  /\ ms_k' = 1
  /\ ms_pc' = "loop"
  /\ ms_entry' = heap
  /\ UNCHANGED <<heap, ms_returned>>
  /\ UNCHANGED <<tokVars, btVars, dfVars>>

MsNext ==
  \/ MergeNewKey
  \/ MergeSeenKey
  \/ MergeReturn
  \/ MergeAgain

----------------------------------------------------------------------------
(* Inputs of the differ.                                                   *)

MaxSiblings == 3

Sym(name, size) == [name |-> name, vma |-> 256, lma |-> 256, size |-> size, align |-> 1]

Sec(name, size, children) ==
  [name |-> name, vma |-> 256, lma |-> 256, size |-> size, align |-> 4,
   children |-> children]

X == <<"x">>
Y == <<"y">>

SymbolChoices == {Sym(X, 8), Sym(X, 16), Sym(Y, 8), Sym(Y, 0)}

SectionInChoices ==
  { Sec(X, 8, <<Sym(X, 8), Sym(Y, 8)>>),
    Sec(X, 16, <<Sym(Y, 8), Sym(X, 16), Sym(X, 8)>>),
    Sec(Y, 8, <<Sym(X, 16)>>) }

SectionOutChoices ==
  { Sec(X, 8, <<Sec(X, 8, <<Sym(X, 8)>>), Sec(Y, 8, <<>>)>>),
    Sec(X, 16, <<Sec(Y, 8, <<>>), Sec(X, 8, <<Sym(Y, 8)>>),
                 Sec(X, 16, <<Sym(Y, 8), Sym(X, 16)>>)>>),
    Sec(Y, 8, <<Sec(X, 8, <<>>)>>) }

ListsOf(S) == UNION {[1..n -> S] : n \in 0..MaxSiblings}

----------------------------------------------------------------------------
(* diff_symbols, diff_section_in, diff_link_map.  The three functions hold *)
(* the same code but for the class of the nodes; a dict is a sequence of   *)
(* [key, val] in insertion order.                                          *)

\* a dict comprehension that keeps the first element of each name
RECURSIVE NameDictFirst(_, _)
NameDictFirst(list, d) ==
  IF list = <<>> THEN d
  ELSE LET e == Head(list)
       IN NameDictFirst(Tail(list),
            IF HasKey(d, e.name) THEN d ELSE Append(d, [key |-> e.name, val |-> e]))

NameDict_firstwins(list) == NameDictFirst(list, <<>>)

\* {e.name: e for e in list}: a name that is already a key keeps its place
\* and takes the later element
RECURSIVE NameDictAcc(_, _)
NameDictAcc(list, d) ==
  IF list = <<>> THEN d
  ELSE LET e == Head(list)
       IN NameDictAcc(Tail(list),
            IF HasKey(d, e.name)
            THEN [n \in 1..Len(d) |->
                    IF d[n].key = e.name THEN [key |-> e.name, val |-> e] ELSE d[n]]
            ELSE Append(d, [key |-> e.name, val |-> e]))

NameDict(list) == NameDictAcc(list, <<>>)

Keys(d) == [n \in 1..Len(d) |-> d[n].key]

\* names.get(name), with the placeholder where it returns None
Get(d, name, placeholder) ==
  IF HasKey(d, name) THEN d[CHOOSE n \in 1..Len(d) : d[n].key = name].val
  ELSE placeholder

\* the keys of union: the chain of both key lists, a name taken once
RECURSIVE UnionAcc(_, _)
UnionAcc(chain, u) ==
  IF chain = <<>> THEN u
  ELSE UnionAcc(Tail(chain),
         IF \E n \in 1..Len(u) : u[n] = Head(chain) THEN u ELSE Append(u, Head(chain)))

UnionKeys(names_a, names_b) == UnionAcc(Keys(names_a) \o Keys(names_b), <<>>)

\* no name is left out
Skipped_never(e_a, e_b) == FALSE

\* `if e_a.size == e_b.size: continue`
Skipped(e_a, e_b) == e_a.size = e_b.size

\* the difference without its sign
Delta_abs(e_a, e_b) ==
  IF e_b.size >= e_a.size THEN e_b.size - e_a.size ELSE e_a.size - e_b.size

\* delta=e_b.size - e_a.size
Delta(e_a, e_b) == e_b.size - e_a.size

ZeroSymbol(name) == [name |-> name, vma |-> 0, lma |-> 0, size |-> 0, align |-> 0]

ZeroSection(name) ==
  [name |-> name, vma |-> 0, lma |-> 0, size |-> 0, align |-> 0, children |-> <<>>]

RECURSIVE DiffSymbolList(_, _, _)
DiffSymbolList(names, names_a, names_b) ==
  IF names = <<>> THEN <<>>
  ELSE LET name == Head(names)
           e_a == Get(names_a, name, ZeroSymbol(name))
           e_b == Get(names_b, name, ZeroSymbol(name))
       IN (IF Skipped(e_a, e_b) THEN <<>>
           ELSE <<[name |-> name, sizes |-> <<e_a.size, e_b.size>>,
                   delta |-> Delta(e_a, e_b)]>>)
          \o DiffSymbolList(Tail(names), names_a, names_b)

diff_symbols(a, b) ==
  DiffSymbolList(UnionKeys(NameDict(a), NameDict(b)), NameDict(a), NameDict(b))

RECURSIVE DiffSectionInList(_, _, _)
DiffSectionInList(names, names_a, names_b) ==
  IF names = <<>> THEN <<>>
  ELSE LET name == Head(names)
           e_a == Get(names_a, name, ZeroSection(name))
           e_b == Get(names_b, name, ZeroSection(name))
       IN (IF Skipped(e_a, e_b) THEN <<>>
           ELSE <<[name |-> name, sizes |-> <<e_a.size, e_b.size>>,
                   delta |-> Delta(e_a, e_b),
                   children |-> diff_symbols(e_a.children, e_b.children)]>>)
          \o DiffSectionInList(Tail(names), names_a, names_b)

diff_section_in(a, b) ==
  DiffSectionInList(UnionKeys(NameDict(a), NameDict(b)), NameDict(a), NameDict(b))

RECURSIVE DiffSectionOutList(_, _, _)
DiffSectionOutList(names, names_a, names_b) ==
  IF names = <<>> THEN <<>>
  ELSE LET name == Head(names)
           e_a == Get(names_a, name, ZeroSection(name))
           e_b == Get(names_b, name, ZeroSection(name))
       IN (IF Skipped(e_a, e_b) THEN <<>>
           ELSE <<[name |-> name, sizes |-> <<e_a.size, e_b.size>>,
                   delta |-> Delta(e_a, e_b),
                   children |-> diff_section_in(e_a.children, e_b.children)]>>)
          \o DiffSectionOutList(Tail(names), names_a, names_b)

diff_link_map(a, b) ==
  DiffSectionOutList(UnionKeys(NameDict(a), NameDict(b)), NameDict(a), NameDict(b))

DiffAt(level, a, b) ==
  IF level = "symbol" THEN diff_symbols(a, b)
  ELSE IF level = "in" THEN diff_section_in(a, b)
  ELSE diff_link_map(a, b)

CallDiffSymbols ==
  /\ df_pc = "call"
  /\ df_level = "symbol"
  /\ df_result' = diff_symbols(df_a, df_b)
  /\ df_pc' = "returned"
  /\ UNCHANGED <<df_level, df_a, df_b, df_reverse>>
  /\ UNCHANGED <<tokVars, btVars, msVars>>

CallDiffSectionIn ==
  /\ df_pc = "call"
  /\ df_level = "in"
  /\ df_result' = diff_section_in(df_a, df_b)
  /\ df_pc' = "returned"
  /\ UNCHANGED <<df_level, df_a, df_b, df_reverse>>
  /\ UNCHANGED <<tokVars, btVars, msVars>>

CallDiffLinkMap ==
  /\ df_pc = "call"
  /\ df_level = "out"
  /\ df_result' = diff_link_map(df_a, df_b)
  /\ df_pc' = "returned"
  /\ UNCHANGED <<df_level, df_a, df_b, df_reverse>>
  /\ UNCHANGED <<tokVars, btVars, msVars>>

\* the same function on the arguments in the other order
CallDiffReversed ==
  /\ df_pc = "returned"
  /\ df_reverse' = DiffAt(df_level, df_b, df_a)
  /\ df_pc' = "done"
  /\ UNCHANGED <<df_level, df_a, df_b, df_result>>
  /\ UNCHANGED <<tokVars, btVars, msVars>>

DfNext ==
  \/ CallDiffSymbols
  \/ CallDiffSectionIn
  \/ CallDiffLinkMap
  \/ CallDiffReversed

----------------------------------------------------------------------------
(* Specifications                                                          *)

InitTokenize ==
  /\ content \in Contents
  /\ lines = <<>>
  /\ out_idx = -1
  /\ in_idx = -1
  /\ symbol_idx = -1
  /\ tok_elems = <<>>
  /\ tok_k = 0
  /\ tok_pc = "start"
  /\ elems = <<>>
  /\ sections_out = <<>>
  /\ sections_in = 0
  /\ symbols = <<0, 0>>
  /\ orphan_sections = <<>>
  /\ orphan_symbols = <<>>
  /\ bt_k = 0
  /\ bt_pc = "idle"
  /\ heap = <<>>
  /\ sections = <<>>
  /\ merged_sections = <<>>
  /\ ms_k = 0
  /\ ms_pc = "idle"
  /\ ms_returned = <<>>
  /\ ms_entry = <<>>
  /\ df_level = "idle"
  /\ df_a = <<>>
  /\ df_b = <<>>
  /\ df_pc = "idle"
  /\ df_result = <<>>
  /\ df_reverse = <<>>

InitBuild ==
  /\ elems \in ElemLists
  /\ sections_out = <<>>
  /\ sections_in = 0
  /\ symbols = <<0, 0>>
  /\ orphan_sections = <<>>
  /\ orphan_symbols = <<>>
  /\ bt_k = 0
  /\ bt_pc = "start"
  /\ content = <<>>
  /\ lines = <<>>
  /\ out_idx = -1
  /\ in_idx = -1
  /\ symbol_idx = -1
  /\ tok_elems = <<>>
  /\ tok_k = 0
  /\ tok_pc = "idle"
  /\ heap = <<>>
  /\ sections = <<>>
  /\ merged_sections = <<>>
  /\ ms_k = 0
  /\ ms_pc = "idle"
  /\ ms_returned = <<>>
  /\ ms_entry = <<>>
  /\ df_level = "idle"
  /\ df_a = <<>>
  /\ df_b = <<>>
  /\ df_pc = "idle"
  /\ df_result = <<>>
  /\ df_reverse = <<>>

InitMerge ==
  /\ heap \in SectionLists
  /\ sections = [n \in 1..Len(heap) |-> n]
  /\ merged_sections = <<>>
  /\ ms_k = 1
  /\ ms_pc = "loop"
  /\ ms_returned = <<>>
  /\ ms_entry = heap
  /\ content = <<>>
  /\ lines = <<>>
  /\ out_idx = -1
  /\ in_idx = -1
  /\ symbol_idx = -1
  /\ tok_elems = <<>>
  /\ tok_k = 0
  /\ tok_pc = "idle"
  /\ elems = <<>>
  /\ sections_out = <<>>
  /\ sections_in = 0
  /\ symbols = <<0, 0>>
  /\ orphan_sections = <<>>
  /\ orphan_symbols = <<>>
  /\ bt_k = 0
  /\ bt_pc = "idle"
  /\ df_level = "idle"
  /\ df_a = <<>>
  /\ df_b = <<>>
  /\ df_pc = "idle"
  /\ df_result = <<>>
  /\ df_reverse = <<>>

InitDiff ==
  /\ df_level \in {"symbol", "in", "out"}
  /\ df_a \in ListsOf(IF df_level = "symbol" THEN SymbolChoices
                      ELSE IF df_level = "in" THEN SectionInChoices
                      ELSE SectionOutChoices)
  /\ df_b \in ListsOf(IF df_level = "symbol" THEN SymbolChoices
                      ELSE IF df_level = "in" THEN SectionInChoices
                      ELSE SectionOutChoices)
  /\ df_pc = "call"
  /\ df_result = <<>>
  /\ df_reverse = <<>>
  /\ content = <<>>
  /\ lines = <<>>
  /\ out_idx = -1
  /\ in_idx = -1
  /\ symbol_idx = -1
  /\ tok_elems = <<>>
  /\ tok_k = 0
  /\ tok_pc = "idle"
  /\ elems = <<>>
  /\ sections_out = <<>>
  /\ sections_in = 0
  /\ symbols = <<0, 0>>
  /\ orphan_sections = <<>>
  /\ orphan_symbols = <<>>
  /\ bt_k = 0
  /\ bt_pc = "idle"
  /\ heap = <<>>
  /\ sections = <<>>
  /\ merged_sections = <<>>
  /\ ms_k = 0
  /\ ms_pc = "idle"
  /\ ms_returned = <<>>
  /\ ms_entry = <<>>

SpecTokenize == InitTokenize /\ [][TokNext]_vars

SpecBuild == InitBuild /\ [][BtNext]_vars

SpecMerge == InitMerge /\ [][MsNext]_vars

SpecDiff == InitDiff /\ [][DfNext]_vars

Init == InitTokenize \/ InitBuild \/ InitMerge \/ InitDiff

Next == TokNext \/ BtNext \/ MsNext \/ DfNext

Spec == Init /\ [][Next]_vars

----------------------------------------------------------------------------
(* Properties of the tokenizer                                             *)

Min(S) == CHOOSE x \in S : \A y \in S : x <= y
Max(S) == CHOOSE x \in S : \A y \in S : x >= y

\* s without its leading and trailing whitespace, said by positions
Trimmed(s) ==
  LET solid == {i \in 1..Len(s) : s[i] \notin Whitespace}
  IN IF solid = {} THEN <<>> ELSE SubSeq(s, Min(solid), Max(solid))

Columns == {"out", "in_", "symbol"}

Offset(c) == IF c = "out" THEN out_idx ELSE IF c = "in_" THEN in_idx ELSE symbol_idx

\* the row has a character other than a space at the 0-based offset idx
NonSpaceAt(row, idx) == idx < Len(row) /\ row[idx + 1] # SP

\* tok_elems[k] was made from lines[k + 1], the k-th line after the heading
RowOf(k) == lines[k + 1]

\* C7 as stated: every positional field of every data row is non-empty
\* exactly when the row has a non-space character at the column's offset,
\* and is then the whole remainder of the row from that offset, stripped.
C7_FieldIffNonSpace ==
  \A k \in 1..Len(tok_elems) : \A c \in Columns :
    LET f == tok_elems[k][c]
        rest == SliceFrom(RowOf(k), Offset(c))
    IN /\ (f # <<>>) <=> NonSpaceAt(RowOf(k), Offset(c))
       /\ (f # <<>>) => f = Trimmed(rest)

\* C7 amended: a positional field is non-empty exactly when the row has a
\* character other than a space at the column's offset and the remainder
\* of the row from that offset is not all whitespace; whenever the
\* character at the offset is not a space, the field is the whole
\* remainder from that offset with surrounding whitespace stripped, not
\* cut at the next column's offset.
C7_FieldIsStrippedRemainder ==
  \A k \in 1..Len(tok_elems) : \A c \in Columns :
    LET f == tok_elems[k][c]
        rest == SliceFrom(RowOf(k), Offset(c))
    IN /\ (f # <<>>) <=>
            (NonSpaceAt(RowOf(k), Offset(c)) /\ \E i \in 1..Len(rest) : rest[i] \notin Whitespace)
       /\ NonSpaceAt(RowOf(k), Offset(c)) => f = Trimmed(rest)
       /\ ~NonSpaceAt(RowOf(k), Offset(c)) => f = <<>>

\* a returned row whose Out name holds a space, is wider than the Out
\* column and so is also read as the In field from the In offset on
C7_WideNameKept ==
  /\ tok_pc = "done"
  /\ \E k \in 1..Len(tok_elems) :
       /\ Len(tok_elems[k].out) > in_idx - out_idx
       /\ \E i \in 1..Len(tok_elems[k].out) : tok_elems[k].out[i] = SP
       /\ tok_elems[k].in_ # <<>>
       /\ Len(RowOf(k)) > Len(Trimmed(RowOf(k))) + 2

----------------------------------------------------------------------------
(* Properties of build_tree                                                *)

RECURSIVE Ascending(_)
Ascending(S) ==
  IF S = {} THEN <<>> ELSE <<Min(S)>> \o Ascending(S \ {Min(S)})

RECURSIVE Pow16(_)
Pow16(n) == IF n = 0 THEN 1 ELSE 16 * Pow16(n - 1)

RECURSIVE PlaceSum(_, _)
PlaceSum(x, i) ==
  IF i > Len(x) THEN 0
  ELSE DigitVal(x[i]) * Pow16(Len(x) - i) + PlaceSum(x, i + 1)

\* the value of a hexadecimal numeral, by place values
HexValue(x) == PlaceSum(x, 1)

OutRecs == {k \in 1..Len(elems) : elems[k].out # <<>>}
InRecs == {k \in 1..Len(elems) : elems[k].out = <<>> /\ elems[k].in_ # <<>>}
SymRecs == {k \in 1..Len(elems) : elems[k].out = <<>> /\ elems[k].in_ = <<>>}

\* the output-section record that most recently precedes record k
OpenedBy(k) == Max({j \in OutRecs : j < k})

Recs(nodes) == [n \in 1..Len(nodes) |-> nodes[n].rec]

NumbersOf(node) ==
  /\ node.vma = HexValue(elems[node.rec].vma)
  /\ node.lma = HexValue(elems[node.rec].lma)
  /\ node.size = HexValue(elems[node.rec].size)
  /\ node.align = HexValue(elems[node.rec].align)

\* C5: when build_tree returns, the output sections are the records with
\* a non-empty out, one each and in record order; the children of each are
\* the records with empty out and non-empty in that it most recently
\* precedes, in record order; names are the records' names and vma, lma,
\* size and align of every node are the values of the records' hexadecimal
\* fields.
C5_TreeFollowsRecords ==
  bt_pc = "done" =>
    /\ Recs(sections_out) = Ascending(OutRecs)
    /\ \A o \in 1..Len(sections_out) :
         LET so == sections_out[o]
         IN /\ Recs(so.children) = Ascending({k \in InRecs : OpenedBy(k) = so.rec})
            /\ so.name = elems[so.rec].out
            /\ NumbersOf(so)
            /\ \A i \in 1..Len(so.children) :
                 LET si == so.children[i]
                 IN /\ si.name = elems[si.rec].in_
                    /\ NumbersOf(si)
                    /\ \A y \in 1..Len(si.children) : NumbersOf(si.children[y])

\* a returned tree with two output sections that each hold an input
\* section
C5_TwoSectionsWithChildren ==
  /\ bt_pc = "done"
  /\ Len(sections_out) >= 2
  /\ sections_out[1].children # <<>>
  /\ sections_out[2].children # <<>>
  /\ sections_out[2].size = 28

\* C6: a symbol record that comes before any input-section record makes
\* build_tree fail; it returns no tree, and no symbol is ever put on a list
\* that is not part of the tree.
C6_OrphanSymbolIsFatal ==
  /\ bt_pc = "done" => \A k \in SymRecs : \E j \in InRecs : j < k
  /\ orphan_symbols = <<>>

\* C9: every symbol in the tree comes from a record that follows the
\* record of its parent input section with no output-section record in
\* between.
C9_OutClearsCurrentInput ==
  \A o \in 1..Len(sections_out) : \A i \in 1..Len(sections_out[o].children) :
    LET si == sections_out[o].children[i]
    IN \A y \in 1..Len(si.children) :
         /\ si.children[y].rec > si.rec
         /\ ~\E j \in OutRecs : si.rec < j /\ j < si.children[y].rec

----------------------------------------------------------------------------
(* Properties of merge_function_sections                                   *)

Range(f) == {f[n] : n \in DOMAIN f}

\* C1: merging the list returned by a merge returns sections equal to it
\* field for field (name, vma, lma, size, align, children), in the same
\* order.
C1_MergeIdempotent ==
  Len(ms_returned) = 2 => ms_returned[2].nodes = ms_returned[1].nodes

\* the merge key, said by positions: the name up to the "o" of the first
\* ".o:(" in it, else the name
KeyOf(name) ==
  LET at == {p \in 1..Len(name) - 3 : SubSeq(name, p, p + 3) = <<".","o",":","(">>}
  IN IF at = {} THEN name ELSE SubSeq(name, 1, Min(at) + 1)

RECURSIVE SumOver(_, _)
SumOver(S, f) ==
  IF S = {} THEN 0
  ELSE LET n == CHOOSE n \in S : TRUE IN f[n].size + SumOver(S \ {n}, f)

RECURSIVE ChildrenOf(_, _)
ChildrenOf(idxs, f) ==
  IF idxs = <<>> THEN <<>> ELSE f[Head(idxs)].children \o ChildrenOf(Tail(idxs), f)

MergedAsGrouped(r) ==
  LET key == [n \in 1..Len(r.entry) |-> KeyOf(r.entry[n].name)]
      first == Ascending({n \in 1..Len(key) : \A m \in 1..(n - 1) : key[m] # key[n]})
  IN /\ Len(r.nodes) = Len(first)
     /\ \A j \in 1..Len(first) :
          LET group == {n \in 1..Len(key) : key[n] = key[first[j]]}
          IN /\ r.nodes[j].name = key[first[j]]
             /\ r.nodes[j].vma = Min({r.entry[n].vma : n \in group})
             /\ r.nodes[j].lma = Min({r.entry[n].lma : n \in group})
             /\ r.nodes[j].size = SumOver(group, r.entry)
             /\ r.nodes[j].children = ChildrenOf(Ascending(group), r.entry)
     /\ SumOver(1..Len(r.nodes), r.nodes) = SumOver(1..Len(r.entry), r.entry)

\* C4: a merge returns one section per distinct merge key, in the order in
\* which the keys first occur, with name the key, vma and lma the minimum
\* over the key's group, size the group's sum and children the group's
\* symbol lists concatenated in input order; the sizes returned sum to the
\* sizes given.
C4_OnePerKeyInFirstSeenOrder ==
  \A c \in 1..Len(ms_returned) : MergedAsGrouped(ms_returned[c])

\* a first merge of three sections whose first and third share a key that
\* the second has not, differ in vma and both hold a symbol
C4_SplitGroupMerged ==
  /\ Len(ms_returned) >= 1
  /\ LET r == ms_returned[1]
     IN /\ Len(r.entry) = 3
        /\ Len(r.nodes) = 2
        /\ r.entry[1].name # r.entry[3].name
        /\ KeyOf(r.entry[1].name) = KeyOf(r.entry[3].name)
        /\ r.entry[1].vma > r.entry[3].vma
        /\ Len(r.nodes[1].children) = 1
        /\ r.nodes[1].size = 24

\* C8: during and after a call every section of the argument is as it was
\* at the call's entry, the argument list holds the same sections, and the
\* sections returned are objects other than the argument's.
C8_MergeLeavesInputAlone ==
  /\ ms_pc \in {"loop", "done"} =>
       \A n \in 1..Len(sections) : heap[sections[n]] = ms_entry[sections[n]]
  /\ \A c \in 1..Len(ms_returned) :
       /\ Range(ms_returned[c].ids) \cap Range(ms_returned[c].arg) = {}
       /\ [n \in 1..Len(ms_returned[c].arg) |-> heap[ms_returned[c].arg[n]]]
            = ms_returned[c].entry

\* a finished first merge that put two sections with symbols under one key
C8_GroupMerged ==
  /\ Len(ms_returned) >= 1
  /\ Len(ms_returned[1].nodes) < Len(ms_returned[1].arg)
  /\ \E j \in 1..Len(ms_returned[1].nodes) : Len(ms_returned[1].nodes[j].children) >= 2

----------------------------------------------------------------------------
(* Properties of the differ.  Depth 1 is a list of symbols, 2 a list of    *)
(* input sections, 3 a list of output sections.                            *)

DepthOf(level) == IF level = "symbol" THEN 1 ELSE IF level = "in" THEN 2 ELSE 3

HasName(L, n) == \E i \in 1..Len(L) : L[i].name = n

NamesOf(L) == {L[i].name : i \in 1..Len(L)}

LastNamed(L, n) == L[Max({i \in 1..Len(L) : L[i].name = n})]

\* the size a side has for a name: 0 when the name is absent
SizeOn(L, n) == IF HasName(L, n) THEN LastNamed(L, n).size ELSE 0

ChildrenOn(L, n) == IF HasName(L, n) THEN LastNamed(L, n).children ELSE <<>>

\* the names of L, each at its first appearance
FirstSeen(L) ==
  LET idx == Ascending({i \in 1..Len(L) : \A j \in 1..(i - 1) : L[j].name # L[i].name})
  IN [k \in 1..Len(idx) |-> L[idx[k]].name]

UnionOrder(A, B) == FirstSeen(A) \o SelectSeq(FirstSeen(B), LAMBDA n : ~HasName(A, n))

RECURSIVE Complete(_, _, _, _)
Complete(depth, A, B, D) ==
  /\ [k \in 1..Len(D) |-> D[k].name]
       = SelectSeq(UnionOrder(A, B), LAMBDA n : SizeOn(A, n) # SizeOn(B, n))
  /\ \A k \in 1..Len(D) :
       /\ D[k].sizes = <<SizeOn(A, D[k].name), SizeOn(B, D[k].name)>>
       /\ D[k].delta = SizeOn(B, D[k].name) - SizeOn(A, D[k].name)
       /\ depth > 1 =>
            Complete(depth - 1, ChildrenOn(A, D[k].name), ChildrenOn(B, D[k].name),
                     D[k].children)

\* C2: at each level the diff holds no name whose two sizes are equal (an
\* absent side counting 0) and holds once every name whose sizes differ,
\* with sizes = [sizeA, sizeB] and delta = sizeB - sizeA, the names of A
\* first in A's first-appearance order, then the names only in B in B's
\* first-appearance order.
C2_DiffComplete ==
  df_pc \in {"returned", "done"} => Complete(DepthOf(df_level), df_a, df_b, df_result)

\* a diff of output sections that reports a name that only B has after a
\* name of A although B lists it first, and under a changed output section
\* reports a changed input section and drops one of equal size on both
\* sides
C2_DropsKeepsAndOrders ==
  /\ df_pc = "returned"
  /\ df_level = "out"
  /\ Len(df_a) = 3
  /\ Len(df_b) = 3
  /\ Len(df_result) = 2
  /\ df_b[1].name = df_result[2].name
  /\ df_result[2].sizes[1] = 0
  /\ df_result[1].children # <<>>
  /\ \E n \in NamesOf(ChildrenOn(df_a, df_result[1].name)) \cap
               NamesOf(ChildrenOn(df_b, df_result[1].name)) :
       n \notin NamesOf(df_result[1].children)

RECURSIVE Mirrored(_, _, _)
Mirrored(depth, D, R) ==
  /\ NamesOf(D) = NamesOf(R)
  /\ Len(D) = Len(R)
  /\ \A k \in 1..Len(D) : \A m \in 1..Len(R) :
       D[k].name = R[m].name =>
         /\ R[m].delta = 0 - D[k].delta
         /\ R[m].sizes = <<D[k].sizes[2], D[k].sizes[1]>>
         /\ depth > 1 => Mirrored(depth - 1, D[k].children, R[m].children)

\* C3: diff(A, B) and diff(B, A) hold the same names at every level, and
\* for each name the node of diff(B, A) has the negated delta and the
\* reversed sizes of the node of diff(A, B).
C3_DiffSymmetric ==
  df_pc = "done" => Mirrored(DepthOf(df_level), df_result, df_reverse)

\* both diffs of two link maps hold two output sections, in different
\* orders, one of them with a changed input section that has a changed
\* symbol
C3_BothDirectionsDiffer ==
  /\ df_pc = "done"
  /\ df_level = "out"
  /\ Len(df_result) = 2
  /\ df_result[1].name = df_reverse[2].name
  /\ \E k \in 1..2 : \E c \in 1..Len(df_result[k].children) :
       df_result[k].children[c].children # <<>>

Occurrences(L, n) == {i \in 1..Len(L) : L[i].name = n}

FirstIn(L, n) == Min(Occurrences(L, n))

\* C10: a name that occurs more than once among the siblings of a side is
\* reported at most once; the report carries the size of the last
\* occurrence on that side and diffs the children of the last occurrence;
\* it stands before another reported name exactly when its first
\* occurrence in A followed by B comes before the other's.
C10_LastWinsFirstPlace ==
  df_pc \in {"returned", "done"} =>
    \A side \in 1..2 :
      LET L == IF side = 1 THEN df_a ELSE df_b
      IN \A n \in {m \in NamesOf(L) : Cardinality(Occurrences(L, m)) >= 2} :
           /\ Cardinality(Occurrences(df_result, n)) <= 1
           /\ \A k \in Occurrences(df_result, n) :
                /\ df_result[k].sizes[side] = L[Max(Occurrences(L, n))].size
                /\ DepthOf(df_level) > 1 =>
                     Complete(DepthOf(df_level) - 1,
                              IF side = 1 THEN L[Max(Occurrences(L, n))].children
                              ELSE ChildrenOn(df_a, n),
                              IF side = 2 THEN L[Max(Occurrences(L, n))].children
                              ELSE ChildrenOn(df_b, n),
                              df_result[k].children)
                /\ \A j \in 1..Len(df_result) :
                     j # k =>
                       ((k < j) <=> (FirstIn(df_a \o df_b, n)
                                      < FirstIn(df_a \o df_b, df_result[j].name)))

\* side A lists a name, another name, then the first name again with
\* another size and other children; the diff reports the first name first,
\* with the later size
C10_DuplicateReported ==
  /\ df_pc = "returned"
  /\ df_level = "in"
  /\ Len(df_a) = 3
  /\ df_a[1].name = df_a[3].name
  /\ df_a[1].name # df_a[2].name
  /\ df_a[1].size # df_a[3].size
  /\ df_a[1].children # df_a[3].children
  /\ Len(df_result) = 2
  /\ df_result[1].name = df_a[1].name
  /\ df_result[1].sizes[1] = df_a[3].size
  /\ df_result[1].children # <<>>

=============================================================================
